---------------------------- MODULE Spec2Model ----------------------------
(***************************************************************************)
(* Execution-time state overlay of the node (BlockifierStateAdapter) over  *)
(* the versioned backend.  Field elements are scaled down: a felt is a     *)
(* natural in 0..FeltMax, the values 0..U64Max are those that fit a u64    *)
(* (a block number), and FeltMax stands for P-1, the largest field value.  *)
(*                                                                         *)
(* The backend is an external collaborator: every read primitive of it is  *)
(* answered by Some(v), None or an I/O error, and the overlay's operations *)
(* are modelled for every answer the backend can give.  Three history      *)
(* variables record what the environment did: backend_answer (the answer   *)
(* the backend has for the operation's key), latest (the value most        *)
(* recently written per key) and backend_writes (the mutations the backend *)
(* received).                                                              *)
(***************************************************************************)
EXTENDS Integers, Sequences, FiniteSets, TLC

\* ------------------------------------------------------------------ bounds
U64Max == 1
MaxEntries == 2

\* ------------------------------------------------------------ felt domain
FeltMax == U64Max + 1
Felt == 0..FeltMax
ONE == 1
FeltDefault == 0
NoBlock == -1

Blocks == {0, U64Max}
Addresses == {ONE, ONE + 1}
Keys == {U64Max, FeltMax}
Values == {0, FeltMax}
BackendValues == {FeltMax}
BackendNonces == {ONE, FeltMax}
BackendClassHashes == {2}
BackendCompiledHashes == {2}
ClassHashes == {1, 2}
CompiledHashes == {1, 2}
Pcs == {{0}}
Blobs == {"v0json", "v1json", "v01json"}
Lengths == {0, 1}

\* ------------------------------------------------------- results, answers
Ok(v) == [tag |-> "Ok", val |-> v]
Err(kind, ctx) == [tag |-> kind, val |-> ctx]

Some(v) == [tag |-> "Some", val |-> v]
None == [tag |-> "None", val |-> 0]
IoErr == [tag |-> "Err", val |-> 0]
Answers(S) == {Some(v) : v \in S} \cup {None, IoErr}

Call(column, method, key, at) ==
    [column |-> column, method |-> method, key |-> key, at |-> at]

ContractClass(variant, blob) == [variant |-> variant, program |-> blob]
Classes == {ContractClass("V0", "v0json"), ContractClass("V1", "v1json")}
DeclaredAt == {U64Max}
ClassData == [contract_class : Blobs, sierra_program_length : Lengths, block_number : DeclaredAt]
BlockHashes == {[felt252 |-> h] : h \in {FeltMax}}

BlockHashAnswers == Answers(BlockHashes)
StorageAnswers == Answers(BackendValues)
NonceAnswers == Answers(BackendNonces)
ClassHashAnswers == Answers(BackendClassHashes)
ClassDataAnswers == Answers(ClassData)
CompiledHashAnswers == Answers(BackendCompiledHashes)

EmptyMap == << >>
Put(m, k, v) == [x \in DOMAIN m \cup {k} |-> IF x = k THEN v ELSE m[x]]

VARIABLES block_number, storage_update, nonce_update, class_hash_update,
          compiled_class_hash_update, contract_class_update, visited_pcs,
          last, latest, backend_answer, backend_writes, suspended

overlay == <<storage_update, nonce_update, class_hash_update,
             compiled_class_hash_update, contract_class_update, visited_pcs>>
vars == <<block_number, storage_update, nonce_update, class_hash_update,
          compiled_class_hash_update, contract_class_update, visited_pcs,
          last, latest, backend_answer, backend_writes, suspended>>

\* --------------------------------------------------- external conversions
u64_try_from(felt) == IF felt <= U64Max THEN Ok(felt) ELSE Err("OutOfRange", felt)
to_stark_felt(block_hash) == block_hash.felt252
try_increment(nonce) ==
    IF (nonce + 1) % (FeltMax + 1) = 0
    THEN Err("StarknetApiError", nonce)
    ELSE Ok((nonce + 1) % (FeltMax + 1))
ContractClassV1_try_from_json_string(s) ==
    IF s \in {"v1json", "v01json"} THEN Ok(ContractClass("V1", s)) ELSE Err("ProgramError", s)
ContractClassV0_try_from_json_string(s) ==
    IF s \in {"v0json", "v01json"} THEN Ok(ContractClass("V0", s)) ELSE Err("ProgramError", s)

\* ------------------------------------------------------------------ reads
Outcome(res, calls) == [res |-> res, calls |-> calls]

\* Variant: the ordinary path asks the backend and never looks at the overlay.
get_storage_at_backend_only(contract_address, key, ans) ==
    IF contract_address = ONE
    THEN LET n == u64_try_from(key) IN
         IF n.tag # "Ok"
         THEN Outcome(Err("OldBlockHashNotProvided", 0), << >>)
         ELSE LET c == Call("mapping", "get_block_hash", n.val, NoBlock) IN
              CASE ans.tag = "Some" -> Outcome(Ok(to_stark_felt(ans.val)), <<c>>)
                [] ans.tag = "None" -> Outcome(Err("OldBlockHashNotProvided", 0), <<c>>)
                [] OTHER -> Outcome(Err("StateReadError", <<"block hash", n.val>>), <<c>>)
    ELSE LET c == Call("contract_storage", "get_at", <<contract_address, key>>,
                       block_number) IN
         CASE ans.tag = "Some" -> Outcome(Ok(ans.val), <<c>>)
           [] ans.tag = "None" -> Outcome(Ok(FeltDefault), <<c>>)
           [] OTHER -> Outcome(Err("StateReadError", <<"storage", contract_address, key>>), <<c>>)

\* Variant: an unknown block hash is answered with the ordinary zero default.
get_storage_at_oracle_default(contract_address, key, ans) ==
    IF contract_address = ONE
    THEN LET n == u64_try_from(key) IN
         IF n.tag # "Ok"
         THEN Outcome(Err("OldBlockHashNotProvided", 0), << >>)
         ELSE LET c == Call("mapping", "get_block_hash", n.val, NoBlock) IN
              CASE ans.tag = "Some" -> Outcome(Ok(to_stark_felt(ans.val)), <<c>>)
                [] ans.tag = "None" -> Outcome(Ok(FeltDefault), <<c>>)
                [] OTHER -> Outcome(Err("StateReadError", <<"block hash", n.val>>), <<c>>)
    ELSE IF contract_address \in DOMAIN storage_update
            /\ key \in DOMAIN storage_update[contract_address]
    THEN Outcome(Ok(storage_update[contract_address][key]), << >>)
    ELSE LET c == Call("contract_storage", "get_at", <<contract_address, key>>,
                       block_number) IN
         CASE ans.tag = "Some" -> Outcome(Ok(ans.val), <<c>>)
           [] ans.tag = "None" -> Outcome(Ok(FeltDefault), <<c>>)
           [] OTHER -> Outcome(Err("StateReadError", <<"storage", contract_address, key>>), <<c>>)

get_storage_at(contract_address, key, ans) ==
    IF contract_address = ONE
    THEN LET n == u64_try_from(key) IN
         IF n.tag # "Ok"
         THEN Outcome(Err("OldBlockHashNotProvided", 0), << >>)
         ELSE LET c == Call("mapping", "get_block_hash", n.val, NoBlock) IN
              CASE ans.tag = "Some" -> Outcome(Ok(to_stark_felt(ans.val)), <<c>>)
                [] ans.tag = "None" -> Outcome(Err("OldBlockHashNotProvided", 0), <<c>>)
                [] OTHER -> Outcome(Err("StateReadError", <<"block hash", n.val>>), <<c>>)
    ELSE IF contract_address \in DOMAIN storage_update
            /\ key \in DOMAIN storage_update[contract_address]
    THEN Outcome(Ok(storage_update[contract_address][key]), << >>)
    ELSE LET c == Call("contract_storage", "get_at", <<contract_address, key>>,
                       block_number) IN
         CASE ans.tag = "Some" -> Outcome(Ok(ans.val), <<c>>)
           [] ans.tag = "None" -> Outcome(Ok(FeltDefault), <<c>>)
           [] OTHER -> Outcome(Err("StateReadError", <<"storage", contract_address, key>>), <<c>>)

get_nonce_at(contract_address, ans) ==
    IF contract_address \in DOMAIN nonce_update
    THEN Outcome(Ok(nonce_update[contract_address]), << >>)
    ELSE LET c == Call("contract_nonces", "get_at", contract_address, block_number) IN
         CASE ans.tag = "Some" -> Outcome(Ok(ans.val), <<c>>)
           [] ans.tag = "None" -> Outcome(Ok(FeltDefault), <<c>>)
           [] OTHER -> Outcome(Err("StateReadError", <<"nonce", contract_address>>), <<c>>)

\* Variant: an address the backend does not know is an error, not class hash zero.
get_class_hash_at_strict(contract_address, ans) ==
    IF contract_address \in DOMAIN class_hash_update
    THEN Outcome(Ok(class_hash_update[contract_address]), << >>)
    ELSE LET c == Call("contract_class_hash", "get_at", contract_address, block_number) IN
         CASE ans.tag = "Some" -> Outcome(Ok(ans.val), <<c>>)
           [] OTHER -> Outcome(Err("StateReadError", <<"class hash", contract_address>>), <<c>>)

get_class_hash_at(contract_address, ans) ==
    IF contract_address \in DOMAIN class_hash_update
    THEN Outcome(Ok(class_hash_update[contract_address]), << >>)
    ELSE LET c == Call("contract_class_hash", "get_at", contract_address, block_number) IN
         CASE ans.tag = "Some" -> Outcome(Ok(ans.val), <<c>>)
           [] ans.tag = "None" -> Outcome(Ok(FeltDefault), <<c>>)
           [] OTHER -> Outcome(Err("StateReadError", <<"class hash", contract_address>>), <<c>>)

\* Variant: a blob the selected variant rejects is tried as the other variant.
get_compiled_contract_class_fallback(class_hash, ans) ==
    IF class_hash \in DOMAIN contract_class_update
    THEN Outcome(Ok(contract_class_update[class_hash]), << >>)
    ELSE LET c == Call("contract_class_data", "get", class_hash, NoBlock) IN
         IF ans.tag = "Some"
         THEN LET v1 == ContractClassV1_try_from_json_string(ans.val.contract_class)
                  v0 == ContractClassV0_try_from_json_string(ans.val.contract_class)
                  first == IF ans.val.sierra_program_length > 0 THEN v1 ELSE v0
                  second == IF ans.val.sierra_program_length > 0 THEN v0 ELSE v1
              IN IF first.tag = "Ok"
                 THEN Outcome(Ok(first.val), <<c>>)
                 ELSE IF second.tag = "Ok"
                 THEN Outcome(Ok(second.val), <<c>>)
                 ELSE Outcome(Err("StateReadError", <<"convert">>), <<c>>)
         ELSE Outcome(Err("UndeclaredClassHash", class_hash), <<c>>)

get_compiled_contract_class(class_hash, ans) ==
    IF class_hash \in DOMAIN contract_class_update
    THEN Outcome(Ok(contract_class_update[class_hash]), << >>)
    ELSE LET c == Call("contract_class_data", "get", class_hash, NoBlock) IN
         IF ans.tag = "Some"
         THEN LET parsed == IF ans.val.sierra_program_length > 0
                            THEN ContractClassV1_try_from_json_string(ans.val.contract_class)
                            ELSE ContractClassV0_try_from_json_string(ans.val.contract_class)
              IN IF parsed.tag = "Ok"
                 THEN Outcome(Ok(parsed.val), <<c>>)
                 ELSE Outcome(Err("StateReadError",
                                  IF ans.val.sierra_program_length > 0
                                  THEN <<"convert V1">> ELSE <<"convert V0">>), <<c>>)
         ELSE Outcome(Err("UndeclaredClassHash", class_hash), <<c>>)

\* Variant: the backend is asked first and the overlay only when it has nothing.
get_compiled_class_hash_backend_first(class_hash, ans) ==
    LET c == Call("contract_class_hashes", "get", class_hash, NoBlock) IN
    CASE ans.tag = "Err" ->
           Outcome(Err("StateReadError", <<"compiled class hash", class_hash>>), <<c>>)
      [] ans.tag = "Some" -> Outcome(Ok(ans.val), <<c>>)
      [] OTHER -> IF class_hash \in DOMAIN compiled_class_hash_update
                  THEN Outcome(Ok(compiled_class_hash_update[class_hash]), <<c>>)
                  ELSE Outcome(Err("UndeclaredClassHash", class_hash), <<c>>)

\* Variant: an undeclared class hash is answered with the zero default.
get_compiled_class_hash_default(class_hash, ans) ==
    IF class_hash \in DOMAIN compiled_class_hash_update
    THEN Outcome(Ok(compiled_class_hash_update[class_hash]), << >>)
    ELSE LET c == Call("contract_class_hashes", "get", class_hash, NoBlock) IN
         CASE ans.tag = "Err" ->
                Outcome(Err("StateReadError", <<"compiled class hash", class_hash>>), <<c>>)
           [] ans.tag = "None" -> Outcome(Ok(FeltDefault), <<c>>)
           [] OTHER -> Outcome(Ok(ans.val), <<c>>)

get_compiled_class_hash(class_hash, ans) ==
    IF class_hash \in DOMAIN compiled_class_hash_update
    THEN Outcome(Ok(compiled_class_hash_update[class_hash]), << >>)
    ELSE LET c == Call("contract_class_hashes", "get", class_hash, NoBlock) IN
         CASE ans.tag = "Err" ->
                Outcome(Err("StateReadError", <<"compiled class hash", class_hash>>), <<c>>)
           [] ans.tag = "None" -> Outcome(Err("UndeclaredClassHash", class_hash), <<c>>)
           [] OTHER -> Outcome(Ok(ans.val), <<c>>)


\* ----------------------------------------------------------- op records
Reads == {"get_storage_at", "get_nonce_at", "get_class_hash_at",
          "get_compiled_contract_class", "get_compiled_class_hash"}
InfallibleWrites == {"set_storage_at", "set_class_hash_at", "set_contract_class",
                     "set_compiled_class_hash"}
Unit == "unit"
Record(op, args, out) == [op |-> op, args |-> args, res |-> out.res, calls |-> out.calls]

GetStorageAt(contract_address, key, ans) ==
    /\ last' = Record("get_storage_at", <<contract_address, key>>,
                      get_storage_at(contract_address, key, ans))
    /\ UNCHANGED <<block_number, overlay>>

\* Variant: a nonce fetched from the backend is kept in the overlay.
GetNonceAt_caching(contract_address, ans) ==
    /\ last' = Record("get_nonce_at", <<contract_address>>, get_nonce_at(contract_address, ans))
    /\ nonce_update' = IF contract_address \notin DOMAIN nonce_update /\ ans.tag = "Some"
                       THEN Put(nonce_update, contract_address, ans.val)
                       ELSE nonce_update
    /\ UNCHANGED <<block_number, storage_update, class_hash_update,
                   compiled_class_hash_update, contract_class_update, visited_pcs>>

GetNonceAt(contract_address, ans) ==
    /\ last' = Record("get_nonce_at", <<contract_address>>, get_nonce_at(contract_address, ans))
    /\ UNCHANGED <<block_number, overlay>>

GetClassHashAt(contract_address, ans) ==
    /\ last' = Record("get_class_hash_at", <<contract_address>>,
                      get_class_hash_at(contract_address, ans))
    /\ UNCHANGED <<block_number, overlay>>

GetCompiledContractClass(class_hash, ans) ==
    /\ last' = Record("get_compiled_contract_class", <<class_hash>>,
                      get_compiled_contract_class(class_hash, ans))
    /\ UNCHANGED <<block_number, overlay>>

GetCompiledClassHash(class_hash, ans) ==
    /\ last' = Record("get_compiled_class_hash", <<class_hash>>,
                      get_compiled_class_hash(class_hash, ans))
    /\ UNCHANGED <<block_number, overlay>>

\* ----------------------------------------------------------------- writes
\* Variant: the write is also sent to the backend's storage column.
SetStorageAt_write_through(contract_address, key, value) ==
    /\ storage_update' =
         Put(storage_update, contract_address,
             Put(IF contract_address \in DOMAIN storage_update
                 THEN storage_update[contract_address] ELSE EmptyMap,
                 key, value))
    /\ last' = Record("set_storage_at", <<contract_address, key, value>>,
                      Outcome(Ok(Unit),
                              <<Call("contract_storage", "insert",
                                     <<contract_address, key>>, block_number)>>))
    /\ UNCHANGED <<block_number, nonce_update, class_hash_update,
                   compiled_class_hash_update, contract_class_update, visited_pcs>>

SetStorageAt(contract_address, key, value) ==
    /\ storage_update' =
         Put(storage_update, contract_address,
             Put(IF contract_address \in DOMAIN storage_update
                 THEN storage_update[contract_address] ELSE EmptyMap,
                 key, value))
    /\ last' = Record("set_storage_at", <<contract_address, key, value>>, Outcome(Ok(Unit), << >>))
    /\ UNCHANGED <<block_number, nonce_update, class_hash_update,
                   compiled_class_hash_update, contract_class_update, visited_pcs>>

\* Variant: the nonce read is buffered before the increment is checked.
IncrementNonce_buffer_first(contract_address, ans) ==
    LET read == get_nonce_at(contract_address, ans)
        nonce == IF read.res.tag = "Ok" THEN try_increment(read.res.val) ELSE read.res
    IN IF nonce.tag = "Ok"
       THEN /\ nonce_update' = Put(nonce_update, contract_address, nonce.val)
            /\ last' = Record("increment_nonce", <<contract_address>>,
                              Outcome(Ok(Unit), read.calls))
            /\ UNCHANGED <<block_number, storage_update, class_hash_update,
                           compiled_class_hash_update, contract_class_update, visited_pcs>>
       ELSE /\ nonce_update' = IF read.res.tag = "Ok"
                               THEN Put(nonce_update, contract_address, read.res.val)
                               ELSE nonce_update
            /\ last' = Record("increment_nonce", <<contract_address>>,
                              Outcome(nonce, read.calls))
            /\ UNCHANGED <<block_number, storage_update, class_hash_update,
                           compiled_class_hash_update, contract_class_update, visited_pcs>>

\* Variant: the nonce to increment is the backend's, whatever the overlay holds.
IncrementNonce_from_backend(contract_address, ans) ==
    LET c == Call("contract_nonces", "get_at", contract_address, block_number)
        read == CASE ans.tag = "Some" -> Outcome(Ok(ans.val), <<c>>)
                  [] ans.tag = "None" -> Outcome(Ok(FeltDefault), <<c>>)
                  [] OTHER -> Outcome(Err("StateReadError", <<"nonce", contract_address>>), <<c>>)
        nonce == IF read.res.tag = "Ok" THEN try_increment(read.res.val) ELSE read.res
    IN IF nonce.tag = "Ok"
       THEN /\ nonce_update' = Put(nonce_update, contract_address, nonce.val)
            /\ last' = Record("increment_nonce", <<contract_address>>,
                              Outcome(Ok(Unit), read.calls))
            /\ UNCHANGED <<block_number, storage_update, class_hash_update,
                           compiled_class_hash_update, contract_class_update, visited_pcs>>
       ELSE /\ last' = Record("increment_nonce", <<contract_address>>,
                              Outcome(nonce, read.calls))
            /\ UNCHANGED <<block_number, overlay>>

IncrementNonce(contract_address, ans) ==
    LET read == get_nonce_at(contract_address, ans)
        nonce == IF read.res.tag = "Ok" THEN try_increment(read.res.val) ELSE read.res
    IN IF nonce.tag = "Ok"
       THEN /\ nonce_update' = Put(nonce_update, contract_address, nonce.val)
            /\ last' = Record("increment_nonce", <<contract_address>>,
                              Outcome(Ok(Unit), read.calls))
            /\ UNCHANGED <<block_number, storage_update, class_hash_update,
                           compiled_class_hash_update, contract_class_update, visited_pcs>>
       ELSE /\ last' = Record("increment_nonce", <<contract_address>>,
                              Outcome(nonce, read.calls))
            /\ UNCHANGED <<block_number, overlay>>

SetClassHashAt(contract_address, class_hash) ==
    /\ class_hash_update' = Put(class_hash_update, contract_address, class_hash)
    /\ last' = Record("set_class_hash_at", <<contract_address, class_hash>>,
                      Outcome(Ok(Unit), << >>))
    /\ UNCHANGED <<block_number, storage_update, nonce_update,
                   compiled_class_hash_update, contract_class_update, visited_pcs>>

SetContractClass(class_hash, contract_class) ==
    /\ contract_class_update' = Put(contract_class_update, class_hash, contract_class)
    /\ last' = Record("set_contract_class", <<class_hash, contract_class>>,
                      Outcome(Ok(Unit), << >>))
    /\ UNCHANGED <<block_number, storage_update, nonce_update, class_hash_update,
                   compiled_class_hash_update, visited_pcs>>

SetCompiledClassHash(class_hash, compiled_class_hash) ==
    /\ compiled_class_hash_update' =
         Put(compiled_class_hash_update, class_hash, compiled_class_hash)
    /\ last' = Record("set_compiled_class_hash", <<class_hash, compiled_class_hash>>,
                      Outcome(Ok(Unit), << >>))
    /\ UNCHANGED <<block_number, storage_update, nonce_update, class_hash_update,
                   contract_class_update, visited_pcs>>

AddVisitedPcs(class_hash, pcs) ==
    /\ visited_pcs' =
         Put(visited_pcs, class_hash,
             (IF class_hash \in DOMAIN visited_pcs THEN visited_pcs[class_hash] ELSE {})
               \cup pcs)
    /\ last' = Record("add_visited_pcs", <<class_hash, pcs>>, Outcome(Ok(Unit), << >>))
    /\ UNCHANGED <<block_number, storage_update, nonce_update, class_hash_update,
                   compiled_class_hash_update, contract_class_update>>

\* Variant: the nonce map is left out of the diff.
to_state_diff_without_nonces ==
    [address_to_class_hash |-> class_hash_update,
     address_to_nonce |-> EmptyMap,
     storage_updates |-> storage_update,
     class_hash_to_compiled_class_hash |-> compiled_class_hash_update]

to_state_diff ==
    [address_to_class_hash |-> class_hash_update,
     address_to_nonce |-> nonce_update,
     storage_updates |-> storage_update,
     class_hash_to_compiled_class_hash |-> compiled_class_hash_update]

ToStateDiff ==
    /\ last' = Record("to_state_diff", << >>, Outcome(Ok(to_state_diff), << >>))
    /\ UNCHANGED <<block_number, overlay>>

\* ----------------------------------------------------------- construction
new(n) ==
    /\ block_number' = n
    /\ storage_update' = EmptyMap
    /\ nonce_update' = EmptyMap
    /\ class_hash_update' = EmptyMap
    /\ compiled_class_hash_update' = EmptyMap
    /\ contract_class_update' = EmptyMap
    /\ visited_pcs' = EmptyMap
    /\ last' = Record("new", <<n>>, Outcome(Ok(Unit), << >>))

\* ---------------------------------------------------------------- backend
\* The backend's primitives the overlay may reach: the reads leave the durable
\* state alone, anything else is a mutation the backend records.
ReadPrimitives == {"get_at", "get", "get_block_hash"}
IsMutation(c) == c.method \notin ReadPrimitives
BackendApply(log, calls) == log \o SelectSeq(calls, IsMutation)

\* -------------------------------------------------------------- histories
NoWrites ==
    [storage |-> EmptyMap, nonce |-> EmptyMap, class_hash |-> EmptyMap,
     compiled_class_hash |-> EmptyMap, contract_class |-> EmptyMap,
     nonce_base |-> EmptyMap, increments |-> EmptyMap]

\* A second overlay over the same backend, held by another execution context
\* while this one runs: its snapshot block, its six maps and its own history.
Adapter(n, storage, nonce, class_hash, compiled, classes, pcs, history) ==
    [block_number |-> n, storage_update |-> storage, nonce_update |-> nonce,
     class_hash_update |-> class_hash, compiled_class_hash_update |-> compiled,
     contract_class_update |-> classes, visited_pcs |-> pcs, latest |-> history]

\* Variant: the two overlays hold one storage map between them.
Owned_shared_storage ==
    suspended' = [suspended EXCEPT !.storage_update = storage_update']

\* Each overlay holds its maps by value: an operation on one has no access to
\* the maps of another.
Owned ==
    UNCHANGED suspended

Init ==
    /\ block_number \in Blocks
    /\ storage_update = EmptyMap
    /\ nonce_update = EmptyMap
    /\ class_hash_update = EmptyMap
    /\ compiled_class_hash_update = EmptyMap
    /\ contract_class_update = EmptyMap
    /\ visited_pcs = EmptyMap
    /\ last = Record("new", <<block_number>>, Outcome(Ok(Unit), << >>))
    /\ latest = NoWrites
    /\ backend_answer = None
    /\ backend_writes = << >>
    /\ suspended = Adapter(0, EmptyMap, EmptyMap, EmptyMap, EmptyMap,
                           EmptyMap, EmptyMap, NoWrites)

\* Number of entries the overlay buffers, over its six maps.
RECURSIVE SumSizes(_, _)
SumSizes(m, keys) ==
    IF keys = {} THEN 0
    ELSE LET k == CHOOSE x \in keys : TRUE
         IN Cardinality(DOMAIN m[k]) + SumSizes(m, keys \ {k})

EntryCount(storage, nonce, class_hash, compiled, classes, pcs) ==
    SumSizes(storage, DOMAIN storage) + Cardinality(DOMAIN nonce)
      + Cardinality(DOMAIN class_hash) + Cardinality(DOMAIN compiled)
      + Cardinality(DOMAIN classes) + Cardinality(DOMAIN pcs)

Bounded ==
    EntryCount(storage_update', nonce_update', class_hash_update',
               compiled_class_hash_update', contract_class_update', visited_pcs')
      + EntryCount(suspended.storage_update, suspended.nonce_update,
                   suspended.class_hash_update, suspended.compiled_class_hash_update,
                   suspended.contract_class_update, suspended.visited_pcs)
      <= MaxEntries

\* What every step records of the environment: the answer the backend had for
\* the operation and the mutations the operation sent to the backend.
Env(ans) ==
    /\ backend_answer' = ans
    /\ backend_writes' = BackendApply(backend_writes, last'.calls)
    /\ Owned

\* ------------------------------------------------------------ next-state
ReadStorage ==
    \E a \in Addresses, k \in Keys :
        \E ans \in (IF a = ONE THEN BlockHashAnswers ELSE StorageAnswers) :
            /\ GetStorageAt(a, k, ans)
            /\ Env(ans)
            /\ UNCHANGED latest

ReadNonce ==
    \E a \in Addresses, ans \in NonceAnswers :
        /\ GetNonceAt(a, ans)
        /\ Env(ans)
        /\ UNCHANGED latest

ReadClassHash ==
    \E a \in Addresses, ans \in ClassHashAnswers :
        /\ GetClassHashAt(a, ans)
        /\ Env(ans)
        /\ UNCHANGED latest

ReadContractClass ==
    \E h \in ClassHashes, ans \in ClassDataAnswers :
        /\ GetCompiledContractClass(h, ans)
        /\ Env(ans)
        /\ UNCHANGED latest

ReadCompiledClassHash ==
    \E h \in ClassHashes, ans \in CompiledHashAnswers :
        /\ GetCompiledClassHash(h, ans)
        /\ Env(ans)
        /\ UNCHANGED latest

WriteStorage ==
    \E a \in Addresses, k \in Keys, v \in Values :
        /\ SetStorageAt(a, k, v)
        /\ Bounded
        /\ Env(None)
        /\ latest' = [latest EXCEPT !.storage = Put(@, <<a, k>>, v)]

\* The nonce increment_nonce is to write: one more than the nonce in force,
\* which is the latest one written, else the backend's, else zero.  The history
\* also keeps, per address, the nonce in force before the first increment
\* (nonce_base) and the number of increments that succeeded (increments).
NonceInForce(a, ans) ==
    IF a \in DOMAIN latest.nonce THEN latest.nonce[a]
    ELSE IF ans.tag = "Some" THEN ans.val ELSE 0

WriteNonce ==
    \E a \in Addresses, ans \in NonceAnswers :
        /\ IncrementNonce(a, ans)
        /\ Bounded
        /\ Env(ans)
        /\ latest' = IF last'.res.tag = "Ok"
                     THEN [latest EXCEPT
                             !.nonce = Put(@, a, NonceInForce(a, ans) + 1),
                             !.nonce_base = IF a \in DOMAIN @ THEN @
                                            ELSE Put(@, a, NonceInForce(a, ans)),
                             !.increments = Put(@, a, IF a \in DOMAIN @
                                                      THEN @[a] + 1 ELSE 1)]
                     ELSE latest

WriteClassHash ==
    \E a \in Addresses, h \in ClassHashes :
        /\ SetClassHashAt(a, h)
        /\ Bounded
        /\ Env(None)
        /\ latest' = [latest EXCEPT !.class_hash = Put(@, a, h)]

WriteContractClass ==
    \E h \in ClassHashes, c \in Classes :
        /\ SetContractClass(h, c)
        /\ Bounded
        /\ Env(None)
        /\ latest' = [latest EXCEPT !.contract_class = Put(@, h, c)]

WriteCompiledClassHash ==
    \E h \in ClassHashes, c \in CompiledHashes :
        /\ SetCompiledClassHash(h, c)
        /\ Bounded
        /\ Env(None)
        /\ latest' = [latest EXCEPT !.compiled_class_hash = Put(@, h, c)]

WritePcs ==
    \E h \in ClassHashes, pcs \in Pcs :
        /\ AddVisitedPcs(h, pcs)
        /\ Bounded
        /\ Env(None)
        /\ UNCHANGED latest

Finalize ==
    /\ ToStateDiff
    /\ Env(None)
    /\ UNCHANGED latest

\* The owner drops the overlay and a fresh one is built for another execution.
Recreate ==
    \E n \in Blocks :
        /\ new(n)
        /\ Env(None)
        /\ latest' = NoWrites

Next ==
    \/ ReadStorage
    \/ ReadNonce
    \/ ReadClassHash
    \/ ReadContractClass
    \/ ReadCompiledClassHash
    \/ WriteStorage
    \/ WriteNonce
    \/ WriteClassHash
    \/ WriteContractClass
    \/ WriteCompiledClassHash
    \/ WritePcs
    \/ Finalize
    \/ Recreate

Spec == Init /\ [][Next]_vars

\* ------------------------------------------------------- two overlays
\* Execution passes from the running overlay to the other one: the operations
\* of two overlays over one backend interleave in any order.
Switch ==
    /\ suspended' = Adapter(block_number, storage_update, nonce_update,
                            class_hash_update, compiled_class_hash_update,
                            contract_class_update, visited_pcs, latest)
    /\ block_number' = suspended.block_number
    /\ storage_update' = suspended.storage_update
    /\ nonce_update' = suspended.nonce_update
    /\ class_hash_update' = suspended.class_hash_update
    /\ compiled_class_hash_update' = suspended.compiled_class_hash_update
    /\ contract_class_update' = suspended.contract_class_update
    /\ visited_pcs' = suspended.visited_pcs
    /\ latest' = suspended.latest
    /\ last' = Record("switch", << >>, Outcome(Ok(Unit), << >>))
    /\ backend_answer' = None
    /\ UNCHANGED backend_writes

\* The two overlays contend for the same keys: the writes of both go to one
\* address, one storage key and one class hash.
Contended ==
    (last.op \in InfallibleWrites \cup {"increment_nonce", "add_visited_pcs"})
        => /\ last.args[1] = ONE + 1
           /\ last.op = "set_storage_at" => last.args[2] = FeltMax

NextTwo ==
    \/ ReadStorage /\ Contended'
    \/ ReadNonce /\ Contended'
    \/ ReadClassHash /\ Contended'
    \/ ReadContractClass /\ Contended'
    \/ ReadCompiledClassHash /\ Contended'
    \/ WriteStorage /\ Contended'
    \/ WriteNonce /\ Contended'
    \/ WriteClassHash /\ Contended'
    \/ WriteContractClass /\ Contended'
    \/ WriteCompiledClassHash /\ Contended'
    \/ WritePcs /\ Contended'
    \/ Finalize /\ Contended'
    \/ Recreate /\ Contended'
    \/ Switch

SpecTwo == Init /\ [][NextTwo]_vars

\* ============================================================ class codec
\* Conversions of a class and its ABI between the wire JSON, the execution
\* form and the persisted record.  They are pure: each is an operator, applied
\* by one action to an input drawn by InitCodec.
MaxBucket == 2
MaxProgram == 2
MaxAbi == 1

SeqsUpTo(S, n) == UNION {[1..k -> S] : k \in 0..n}

Anyhow(msg) == [tag |-> "Err", val |-> msg]
Panic(msg) == [tag |-> "Panic", val |-> msg]

\* ------------------------------------------------------------- strings
\* A string is the sequence of its characters; len() counts bytes of UTF-8.
Chars == {"[", "]", ",", "\"", "f", "U+00E9"}
utf8_len(c) == IF c = "U+00E9" THEN 2 ELSE 1

RECURSIVE len(_)
len(str) == IF str = << >> THEN 0 ELSE utf8_len(Head(str)) + len(Tail(str))

\* An ABI in JSON: an array of entries, each entry standing as its name.
AbiNames == {"f", "U+00E9"}
AbiValues == SeqsUpTo(AbiNames, MaxAbi)

RECURSIVE serde_json_items(_)
serde_json_items(v) ==
    IF v = << >> THEN << >>
    ELSE <<"\"", Head(v), "\"">>
           \o (IF Tail(v) = << >> THEN << >> ELSE <<",">>)
           \o serde_json_items(Tail(v))

serde_json_to_string(v) == <<"[">> \o serde_json_items(v) \o <<"]">>

serde_json_from_str(str) ==
    IF \E v \in AbiValues : serde_json_to_string(v) = str
    THEN Ok(CHOOSE v \in AbiValues : serde_json_to_string(v) = str)
    ELSE Anyhow("expected value")

AbiStrings == {serde_json_to_string(v) : v \in AbiValues} \cup {<<"f">>}

\* ------------------------------------------------------------ ContractAbi
Sierra(abi) == [tag |-> "Sierra", val |-> abi]
Cairo(abi) == [tag |-> "Cairo", val |-> abi]
ContractAbi == {Sierra(str) : str \in AbiStrings}
                 \cup {Cairo(Some(str)) : str \in AbiStrings} \cup {Cairo(None)}

length(abi) ==
    CASE abi.tag = "Sierra" -> len(abi.val)
      [] abi.tag = "Cairo" /\ abi.val.tag = "Some" -> len(abi.val.val)
      [] OTHER -> 0

\* ----------------------------------------------------------- entry points
EntryPointType == {"Constructor", "External", "L1Handler"}
EntryPoints == {[selector |-> 1, offset |-> 10], [selector |-> FeltMax, offset |-> 0]}
EntryPointMaps ==
    UNION {[kinds -> SeqsUpTo(EntryPoints, MaxBucket)] : kinds \in SUBSET EntryPointType}

to_felt(felt) == felt % (FeltMax + 1)

to_legacy_entry_point(entry_point) ==
    [selector |-> to_felt(entry_point.selector), offset |-> entry_point.offset]

\* Variant: the index is taken from the entry instead of its position.
to_entry_point_carried(entry_point, index) ==
    [selector |-> to_felt(entry_point.selector), function_idx |-> entry_point.offset]

to_entry_point(entry_point, index) ==
    [selector |-> to_felt(entry_point.selector), function_idx |-> index]

unwrap_or_default(result) == IF result.tag = "Ok" THEN result.val ELSE << >>

collect_legacy_entry_points(entries, entry_point_type) ==
    IF entry_point_type \notin DOMAIN entries
    THEN Anyhow(<<"Missing entry point", entry_point_type>>)
    ELSE Ok([i \in 1..Len(entries[entry_point_type]) |->
               to_legacy_entry_point(entries[entry_point_type][i])])

collect_entry_points(entries, entry_point_type) ==
    IF entry_point_type \notin DOMAIN entries
    THEN Anyhow(<<"Missing entry point", entry_point_type>>)
    ELSE Ok([i \in 1..Len(entries[entry_point_type]) |->
               to_entry_point(entries[entry_point_type][i], i - 1)])

\* Variant: an absent External bucket is an empty list like the other two.
to_legacy_entry_points_by_type_lenient(entries) ==
    Ok([constructor |-> unwrap_or_default(collect_legacy_entry_points(entries, "Constructor")),
        external |-> unwrap_or_default(collect_legacy_entry_points(entries, "External")),
        l1_handler |-> unwrap_or_default(collect_legacy_entry_points(entries, "L1Handler"))])

to_legacy_entry_points_by_type(entries) ==
    LET constructor == unwrap_or_default(collect_legacy_entry_points(entries, "Constructor"))
        external == collect_legacy_entry_points(entries, "External")
        l1_handler == unwrap_or_default(collect_legacy_entry_points(entries, "L1Handler"))
    IN IF external.tag # "Ok" THEN external
       ELSE Ok([constructor |-> constructor, external |-> external.val,
                l1_handler |-> l1_handler])

to_entry_points_by_type(entries) ==
    LET constructor == unwrap_or_default(collect_entry_points(entries, "Constructor"))
        external == collect_entry_points(entries, "External")
        l1_handler == unwrap_or_default(collect_entry_points(entries, "L1Handler"))
    IN IF external.tag # "Ok" THEN external
       ELSE Ok([constructor |-> constructor, external |-> external.val,
                l1_handler |-> l1_handler])

\* ------------------------------------------------------- class to wire
\* The data of a compiled program: integers and relocatable addresses.
MaybeInt(felt) == [tag |-> "Int", val |-> felt]
Relocatable == [tag |-> "Relocatable", val |-> 0]
ProgramData == {<< >>, <<MaybeInt(1), Relocatable>>}
is_int(word) == word.tag = "Int"

iter_data_ints(program) ==
    LET ints == SelectSeq(program, is_int)
    IN [i \in 1..Len(ints) |-> to_felt(ints[i].val)]

\* The execution form of a class, with its entry points.
ContractClassV0 == [variant : {"V0"}, program : {"v0json"}, entry_points_by_type : EntryPointMaps]
ContractClassV1 == [variant : {"V1"}, program : ProgramData, entry_points_by_type : EntryPointMaps]

to_contract_class_sierra(sierra_class, abi) ==
    LET entry_points_by_type == to_entry_points_by_type(sierra_class.entry_points_by_type)
    IN IF entry_points_by_type.tag # "Ok" THEN entry_points_by_type
       ELSE Ok([variant |-> "Sierra",
                sierra_program |-> iter_data_ints(sierra_class.program),
                contract_class_version |-> "0.1.0",
                entry_points_by_type |-> entry_points_by_type.val,
                abi |-> abi])

\* serialized is what program.serialize() gives for the class's program.
to_contract_class_cairo(contract_class, abi, serialized) ==
    IF serialized.tag # "Ok" THEN Anyhow("serializing program")
    ELSE LET entry_points == to_legacy_entry_points_by_type(contract_class.entry_points_by_type)
         IN IF entry_points.tag # "Ok" THEN entry_points
            ELSE IF abi = None THEN Panic("called Option::unwrap() on a None value")
            ELSE LET serialized_abi == serde_json_from_str(abi.val)
                 IN IF serialized_abi.tag # "Ok" THEN Anyhow("deserializing abi")
                    ELSE Ok([variant |-> "Legacy",
                             program |-> serialized.val,
                             entry_points_by_type |-> entry_points.val,
                             abi |-> serialized_abi.val])

ContractClassWrapper(contract, abi, sierra_program_length, abi_length) ==
    [contract |-> contract, abi |-> abi,
     sierra_program_length |-> sierra_program_length, abi_length |-> abi_length]

\* Variant: a class paired with the other variant's ABI is encoded by the
\* encoder its ABI names.
try_into_by_abi(self, serialized) ==
    IF self.abi.tag = "Cairo"
    THEN to_contract_class_cairo(self.contract, self.abi.val, serialized)
    ELSE to_contract_class_sierra(self.contract, self.abi.val)

try_into(self, serialized) ==
    IF self.contract.variant = "V0"
    THEN IF self.abi.tag = "Cairo"
         THEN to_contract_class_cairo(self.contract, self.abi.val, serialized)
         ELSE Anyhow("Invalid ABI type for Cairo")
    ELSE IF self.abi.tag = "Sierra"
         THEN to_contract_class_sierra(self.contract, self.abi.val)
         ELSE Anyhow("Invalid ABI type for Sierra")

\* ------------------------------------------------------- wire to record
\* A wire payload (serde_json::Value): its sierra_program field, its abi field
\* and the rest of it, which decides what the two class parsers make of it.
JsonAbsent == [kind |-> "absent", items |-> << >>]
JsonString == [kind |-> "string", items |-> << >>]
JsonArray(items) == [kind |-> "array", items |-> items]
Payloads ==
    [sierra_program : {JsonAbsent, JsonString}
                        \cup {JsonArray(p) : p \in SeqsUpTo({1}, MaxProgram)},
     abi : {JsonAbsent} \cup {JsonArray(v) : v \in AbiValues},
     body : Blobs]

get(value, field) ==
    IF value[field].kind = "absent" THEN None ELSE Some(value[field])
as_array(value) == IF value.kind = "array" THEN Some(value.items) ELSE None

from_contract_class_sierra(contract_class) ==
    LET blockifier_contract == ContractClassV1_try_from_json_string(contract_class.body)
    IN IF blockifier_contract.tag # "Ok" THEN Anyhow("converting contract class")
       ELSE Ok(blockifier_contract.val)

from_contract_class_cairo(contract_class) ==
    LET blockifier_contract == ContractClassV0_try_from_json_string(contract_class.body)
    IN IF blockifier_contract.tag # "Ok" THEN Anyhow("converting contract class")
       ELSE Ok(blockifier_contract.val)

from_rpc_contract_class(contract_class) ==
    IF get(contract_class, "sierra_program").tag = "Some"
    THEN from_contract_class_sierra(contract_class)
    ELSE from_contract_class_cairo(contract_class)

\* Variant: abi_length counts the characters of the ABI string.
try_from_char_count(contract_class) ==
    LET contract == from_rpc_contract_class(contract_class)
        abi_value == get(contract_class, "abi")
    IN IF contract.tag # "Ok" THEN contract
       ELSE IF abi_value = None THEN Anyhow("Missing abi field in contract class")
       ELSE LET abi_string == serde_json_to_string(abi_value.val.items)
                sierra_program == get(contract_class, "sierra_program")
                abi == IF sierra_program.tag = "Some"
                       THEN Sierra(abi_string) ELSE Cairo(Some(abi_string))
                array == IF sierra_program.tag = "Some"
                         THEN as_array(sierra_program.val) ELSE None
                sierra_program_length == IF array.tag = "Some" THEN Len(array.val) ELSE 0
            IN Ok(ContractClassWrapper(contract.val, abi, sierra_program_length,
                                       Len(abi_string)))

try_from(contract_class) ==
    LET contract == from_rpc_contract_class(contract_class)
        abi_value == get(contract_class, "abi")
    IN IF contract.tag # "Ok" THEN contract
       ELSE IF abi_value = None THEN Anyhow("Missing abi field in contract class")
       ELSE LET abi_string == serde_json_to_string(abi_value.val.items)
                sierra_program == get(contract_class, "sierra_program")
                abi == IF sierra_program.tag = "Some"
                       THEN Sierra(abi_string) ELSE Cairo(Some(abi_string))
                array == IF sierra_program.tag = "Some"
                         THEN as_array(sierra_program.val) ELSE None
                sierra_program_length == IF array.tag = "Some" THEN Len(array.val) ELSE 0
            IN Ok(ContractClassWrapper(contract.val, abi, sierra_program_length,
                                       len(abi_string)))

\* ------------------------------------------------------------ ABI entries
LegacyTypedParameter == {[name |-> "x", type |-> "felt"], [name |-> "y", type |-> "Uint256"]}
TypedParameters ==
    {<< >>, <<[name |-> "x", type |-> "felt"], [name |-> "y", type |-> "Uint256"]>>}
RawLegacyMember == {[name |-> "low", type |-> "felt", offset |-> 0]}
EntryNames == {"constructor", "f"}
RawLegacyFunction ==
    [name : EntryNames, inputs : TypedParameters, outputs : TypedParameters,
     state_mutability : {None, Some("View")}]
RawLegacyConstructor ==
    [name : EntryNames, inputs : TypedParameters, outputs : TypedParameters]
RawLegacyEvent == [name : EntryNames, keys : TypedParameters, data : TypedParameters]
RawLegacyStruct ==
    [name : EntryNames, size : {0, 1}, members : SeqsUpTo(RawLegacyMember, 1)]
AbiEntry(tag, entry) == [tag |-> tag, val |-> entry]
RawLegacyAbiEntry ==
    {AbiEntry("Function", e) : e \in RawLegacyFunction}
      \cup {AbiEntry("Constructor", e) : e \in RawLegacyConstructor}
      \cup {AbiEntry("L1Handler", e) : e \in RawLegacyConstructor}
      \cup {AbiEntry("Event", e) : e \in RawLegacyEvent}
      \cup {AbiEntry("Struct", e) : e \in RawLegacyStruct}

AbiTypedParameterWrapper_from(p) == [name |-> p.name, type |-> p.type]
LegacyTypedParameter_from(p) == [name |-> p.name, type |-> p.type]
AbiStructMemberWrapper_from(m) == [name |-> m.name, type |-> m.type, offset |-> m.offset]
RawLegacyMember_from(m) == [name |-> m.name, type |-> m.type, offset |-> m.offset]
AbiFunctionStateMutabilityWrapper_from(v) == IF v = "View" THEN "View" ELSE v
FunctionStateMutability_from(v) == IF v = "View" THEN "View" ELSE v

AbiFunctionEntryWrapper_from(abi_function_entry) ==
    [name |-> abi_function_entry.name,
     inputs |-> [i \in 1..Len(abi_function_entry.inputs) |->
                AbiTypedParameterWrapper_from(abi_function_entry.inputs[i])],
     outputs |-> [i \in 1..Len(abi_function_entry.outputs) |->
                AbiTypedParameterWrapper_from(abi_function_entry.outputs[i])],
     state_mutability |-> IF abi_function_entry.state_mutability.tag = "Some"
                         THEN Some(AbiFunctionStateMutabilityWrapper_from(
                                       abi_function_entry.state_mutability.val))
                         ELSE None]

RawLegacyFunction_from(abi_function_entry) ==
    [name |-> abi_function_entry.name,
     inputs |-> [i \in 1..Len(abi_function_entry.inputs) |->
                LegacyTypedParameter_from(abi_function_entry.inputs[i])],
     outputs |-> [i \in 1..Len(abi_function_entry.outputs) |->
                LegacyTypedParameter_from(abi_function_entry.outputs[i])],
     state_mutability |-> IF abi_function_entry.state_mutability.tag = "Some"
                         THEN Some(FunctionStateMutability_from(
                                       abi_function_entry.state_mutability.val))
                         ELSE None]

AbiEventEntryWrapper_from(abi_event_entry) ==
    [name |-> abi_event_entry.name,
     keys |-> [i \in 1..Len(abi_event_entry.keys) |->
                AbiTypedParameterWrapper_from(abi_event_entry.keys[i])],
     data |-> [i \in 1..Len(abi_event_entry.data) |->
                AbiTypedParameterWrapper_from(abi_event_entry.data[i])]]

RawLegacyEvent_from(abi_event_entry) ==
    [name |-> abi_event_entry.name,
     keys |-> [i \in 1..Len(abi_event_entry.keys) |->
                LegacyTypedParameter_from(abi_event_entry.keys[i])],
     data |-> [i \in 1..Len(abi_event_entry.data) |->
                LegacyTypedParameter_from(abi_event_entry.data[i])]]

AbiStructEntryWrapper_from(abi_struct_entry) ==
    [name |-> abi_struct_entry.name,
     size |-> abi_struct_entry.size,
     members |-> [i \in 1..Len(abi_struct_entry.members) |->
                AbiStructMemberWrapper_from(abi_struct_entry.members[i])]]

RawLegacyStruct_from(abi_struct_entry) ==
    [name |-> abi_struct_entry.name,
     size |-> abi_struct_entry.size,
     members |-> [i \in 1..Len(abi_struct_entry.members) |->
                RawLegacyMember_from(abi_struct_entry.members[i])]]

AbiEntryWrapper_from(abi_entry) ==
    CASE abi_entry.tag = "Function" ->
           AbiEntry("Function", AbiFunctionEntryWrapper_from(abi_entry.val))
      [] abi_entry.tag = "Event" ->
           AbiEntry("Event", AbiEventEntryWrapper_from(abi_entry.val))
      [] abi_entry.tag = "Struct" ->
           AbiEntry("Struct", AbiStructEntryWrapper_from(abi_entry.val))
      [] abi_entry.tag = "Constructor" ->
           AbiEntry("Function",
                    AbiFunctionEntryWrapper_from(
                        [name |-> "constructor", inputs |-> abi_entry.val.inputs,
                         outputs |-> << >>, state_mutability |-> None]))
      [] abi_entry.tag = "L1Handler" ->
           AbiEntry("Function",
                    AbiFunctionEntryWrapper_from(
                        [name |-> "l1_handler", inputs |-> abi_entry.val.inputs,
                         outputs |-> << >>, state_mutability |-> None]))

\* Variant: a function entry named "constructor" goes back as a Constructor entry.
RawLegacyAbiEntry_from_by_name(abi_entry) ==
    CASE abi_entry.tag = "Function" /\ abi_entry.val.name = "constructor" ->
           AbiEntry("Constructor",
                    [name |-> abi_entry.val.name,
                     inputs |-> [i \in 1..Len(abi_entry.val.inputs) |->
                                LegacyTypedParameter_from(abi_entry.val.inputs[i])],
                     outputs |-> [i \in 1..Len(abi_entry.val.outputs) |->
                                LegacyTypedParameter_from(abi_entry.val.outputs[i])]])
      [] abi_entry.tag = "Function" /\ abi_entry.val.name # "constructor" ->
           AbiEntry("Function", RawLegacyFunction_from(abi_entry.val))
      [] abi_entry.tag = "Event" -> AbiEntry("Event", RawLegacyEvent_from(abi_entry.val))
      [] abi_entry.tag = "Struct" -> AbiEntry("Struct", RawLegacyStruct_from(abi_entry.val))

RawLegacyAbiEntry_from(abi_entry) ==
    CASE abi_entry.tag = "Function" ->
           AbiEntry("Function", RawLegacyFunction_from(abi_entry.val))
      [] abi_entry.tag = "Event" -> AbiEntry("Event", RawLegacyEvent_from(abi_entry.val))
      [] abi_entry.tag = "Struct" -> AbiEntry("Struct", RawLegacyStruct_from(abi_entry.val))

\* --------------------------------------------------------- codec steps
Wrappers ==
    {ContractClassWrapper(contract, abi,
                          IF contract.variant = "V1" THEN 1 ELSE 0, length(abi)) :
       contract \in ContractClassV0 \cup ContractClassV1, abi \in ContractAbi}

SerializeOutcomes(contract) ==
    IF contract.variant = "V0"
    THEN {Ok(<<"program", contract.program>>), Anyhow("serialize")}
    ELSE {Ok(<<"program">>)}

Given(kind, input) == Record(kind, input, Outcome(Ok(Unit), << >>))

TryInto ==
    /\ last.op = "wrapper"
    /\ last' = Record("try_into", last.args,
                      Outcome(try_into(last.args[1], last.args[2]), << >>))
    /\ UNCHANGED <<block_number, overlay, latest, backend_answer, backend_writes,
                   suspended>>

TryFrom ==
    /\ last.op = "payload"
    /\ last' = Record("try_from", last.args, Outcome(try_from(last.args[1]), << >>))
    /\ UNCHANGED <<block_number, overlay, latest, backend_answer, backend_writes,
                   suspended>>

AbiEntryFrom ==
    /\ last.op = "raw_abi_entry"
    /\ last' = Record("abi_entry_from", last.args,
                      Outcome(Ok(AbiEntryWrapper_from(last.args[1])), << >>))
    /\ UNCHANGED <<block_number, overlay, latest, backend_answer, backend_writes,
                   suspended>>

\* The internal entry just made goes back to wire; args keeps the wire entry it
\* came from.
RawAbiEntryFrom ==
    /\ last.op = "abi_entry_from"
    /\ last' = Record("raw_abi_entry_from", <<last.args[1], last.res.val>>,
                      Outcome(Ok(RawLegacyAbiEntry_from(last.res.val)), << >>))
    /\ UNCHANGED <<block_number, overlay, latest, backend_answer, backend_writes,
                   suspended>>

InitCodec ==
    /\ block_number = 0
    /\ storage_update = EmptyMap
    /\ nonce_update = EmptyMap
    /\ class_hash_update = EmptyMap
    /\ compiled_class_hash_update = EmptyMap
    /\ contract_class_update = EmptyMap
    /\ visited_pcs = EmptyMap
    /\ latest = NoWrites
    /\ backend_answer = None
    /\ backend_writes = << >>
    /\ suspended = Adapter(0, EmptyMap, EmptyMap, EmptyMap, EmptyMap,
                           EmptyMap, EmptyMap, NoWrites)
    /\ \/ \E self \in Wrappers : \E serialized \in SerializeOutcomes(self.contract) :
             last = Given("wrapper", <<self, serialized>>)
       \/ \E contract_class \in Payloads : last = Given("payload", <<contract_class>>)
       \/ \E abi_entry \in RawLegacyAbiEntry : last = Given("raw_abi_entry", <<abi_entry>>)

NextCodec ==
    \/ TryInto
    \/ TryFrom
    \/ AbiEntryFrom
    \/ RawAbiEntryFrom

SpecCodec == InitCodec /\ [][NextCodec]_vars

\* ================================================================ claims

\* Whether the key of the last operation has a write in the overlay's history.
Written ==
    CASE last.op = "get_storage_at" ->
           <<last.args[1], last.args[2]>> \in DOMAIN latest.storage
      [] last.op \in {"get_nonce_at", "increment_nonce"} ->
           last.args[1] \in DOMAIN latest.nonce
      [] last.op = "get_class_hash_at" -> last.args[1] \in DOMAIN latest.class_hash
      [] last.op = "get_compiled_contract_class" ->
           last.args[1] \in DOMAIN latest.contract_class
      [] last.op = "get_compiled_class_hash" ->
           last.args[1] \in DOMAIN latest.compiled_class_hash
      [] OTHER -> FALSE

Returns(v) == last.res.tag = "Ok" /\ last.res.val = v
Fails(kind) == last.res.tag = kind

\* C1 (as stated): for every address, a storage read of a written key returns
\* the value most recently written to it, whatever value (or none) the backend
\* holds.
C1_ReadYourWritesEveryAddress ==
    (last.op = "get_storage_at" /\ Written /\ backend_answer # IoErr)
        => Returns(latest.storage[<<last.args[1], last.args[2]>>])

\* C1 (amended): for every address other than the oracle address 0x1, a storage
\* read of a written key returns the value most recently written to it,
\* whatever the backend answers.
C1_ReadYourWrites ==
    (last.op = "get_storage_at" /\ last.args[1] # ONE /\ Written)
        => Returns(latest.storage[<<last.args[1], last.args[2]>>])

\* A storage read of a written key at an ordinary address, the overlay holding
\* zero and the backend another value.
C1_Witness ==
    /\ last.op = "get_storage_at"
    /\ last.args[1] # ONE
    /\ Written
    /\ latest.storage[<<last.args[1], last.args[2]>>] = 0
    /\ backend_answer = Some(FeltMax)
    /\ Returns(0)

\* C2: a nonce, class-hash, compiled-class-hash or class read of a key written
\* in the overlay returns the value most recently written and makes no backend
\* call, whatever the backend answers.
C2_WritesShadowBackend ==
    (last.op \in (Reads \ {"get_storage_at"}) /\ Written) =>
        /\ last.calls = << >>
        /\ CASE last.op = "get_nonce_at" -> Returns(latest.nonce[last.args[1]])
             [] last.op = "get_class_hash_at" -> Returns(latest.class_hash[last.args[1]])
             [] last.op = "get_compiled_contract_class" ->
                  Returns(latest.contract_class[last.args[1]])
             [] OTHER -> Returns(latest.compiled_class_hash[last.args[1]])

\* A compiled-class-hash read of a written key while the backend holds another
\* value for it.
C2_Witness ==
    /\ last.op = "get_compiled_class_hash"
    /\ Written
    /\ backend_answer.tag = "Some"
    /\ backend_answer.val # latest.compiled_class_hash[last.args[1]]
    /\ Returns(latest.compiled_class_hash[last.args[1]])

\* C3 (as stated): a read of a key with no overlay write is answered with the
\* backend's state as of snapshot_block: the backend is asked for the value at
\* block_number, and a block hash or a class that is returned is not one of a
\* block later than block_number.
C3_SnapshotPinning ==
    (last.op \in Reads /\ ~Written /\ last.calls # << >>) =>
        CASE last.op = "get_storage_at" /\ last.args[1] = ONE ->
               Fails("Ok") => last.calls[1].key <= block_number
          [] last.op = "get_compiled_contract_class" ->
               Fails("Ok") => backend_answer.val.block_number <= block_number
          [] OTHER -> last.calls[1].at = block_number

\* C4: with no overlay write for the key and the backend answering not found,
\* a storage read at an ordinary address, a nonce read and a class-hash read
\* return zero.
C4_NotFoundDefaults ==
    (/\ last.op \in {"get_storage_at", "get_nonce_at", "get_class_hash_at"}
     /\ ~(last.op = "get_storage_at" /\ last.args[1] = ONE)
     /\ ~Written
     /\ backend_answer = None)
        => Returns(0)

\* A class-hash read of an address unknown to the overlay and to the backend,
\* the overlay holding another address.
C4_Witness ==
    /\ last.op = "get_class_hash_at"
    /\ ~Written
    /\ latest.class_hash # EmptyMap
    /\ backend_answer = None
    /\ Returns(0)

\* C5: with no overlay write for class hash h and the backend answering not
\* found, the class read and the compiled-class-hash read fail with
\* UndeclaredClassHash(h).
C5_UndeclaredClass ==
    (/\ last.op \in {"get_compiled_contract_class", "get_compiled_class_hash"}
     /\ ~Written
     /\ backend_answer = None)
        => (Fails("UndeclaredClassHash") /\ last.res.val = last.args[1])

\* A compiled-class-hash read of an undeclared hash, the overlay declaring the
\* other hash.
C5_Witness ==
    /\ last.op = "get_compiled_class_hash"
    /\ ~Written
    /\ latest.compiled_class_hash # EmptyMap
    /\ backend_answer = None
    /\ Fails("UndeclaredClassHash")
    /\ last.res.val = last.args[1]

\* C6 (as stated): when the key is not in the overlay and the backend call
\* fails with an I/O error, each of the five reads returns StateReadError and
\* calls the backend at most once.
C6_IoFailureSurfaced ==
    (/\ last.op \in Reads
     /\ ~Written
     /\ backend_answer = IoErr
     /\ (last.op = "get_storage_at" /\ last.args[1] = ONE) => last.args[2] <= U64Max)
        => (Fails("StateReadError") /\ Len(last.calls) <= 1)

\* C7: a storage read at 0x1 with key K returns the hash the backend has for
\* block K, and fails with OldBlockHashNotProvided when the backend has none or
\* K does not fit a block number; at any other address the read is ordinary
\* storage (overlay value, else backend value, else zero) and never fails with
\* OldBlockHashNotProvided.
C7_OracleCarveOut ==
    last.op = "get_storage_at" =>
        IF last.args[1] = ONE
        THEN /\ (last.args[2] <= U64Max /\ backend_answer.tag = "Some")
                    => Returns(backend_answer.val.felt252)
             /\ (last.args[2] > U64Max \/ backend_answer = None)
                    => Fails("OldBlockHashNotProvided")
        ELSE /\ ~Fails("OldBlockHashNotProvided")
             /\ Written => Returns(latest.storage[<<last.args[1], last.args[2]>>])
             /\ (~Written /\ backend_answer.tag = "Some") => Returns(backend_answer.val)
             /\ (~Written /\ backend_answer = None) => Returns(0)

\* An oracle read of a block whose hash the backend does not have, while the
\* overlay holds a write for that very address and key.
C7_Witness ==
    /\ last.op = "get_storage_at"
    /\ last.args[1] = ONE
    /\ last.args[2] <= U64Max
    /\ Written
    /\ backend_answer = None
    /\ Fails("OldBlockHashNotProvided")

\* C8: set_storage_at, set_class_hash_at, set_contract_class and
\* set_compiled_class_hash succeed in every state; increment_nonce fails with
\* the read error when its nonce read fails and with the overflow error when
\* the nonce in force is the maximum field value, and a failed increment_nonce
\* leaves every overlay map unchanged.
C8_Step ==
    /\ last'.op \in InfallibleWrites => last'.res.tag = "Ok"
    /\ last'.op = "increment_nonce" =>
         LET a == last'.args[1]
             readFails == a \notin DOMAIN latest.nonce /\ backend_answer' = IoErr
         IN /\ readFails => last'.res.tag = "StateReadError"
            /\ (~readFails /\ NonceInForce(a, backend_answer') = FeltMax)
                   => last'.res.tag = "StarknetApiError"
            /\ (~readFails /\ NonceInForce(a, backend_answer') # FeltMax)
                   => last'.res.tag = "Ok"
            /\ last'.res.tag # "Ok" => overlay' = overlay

\* C8: every step satisfies C8_Step: the four setters always succeed, and
\* increment_nonce fails only when its nonce read fails or the nonce cannot be
\* incremented, leaving every overlay map as it was.
C8_IncrementNonceFailsAtomically == [][C8_Step]_vars

\* An increment_nonce that overflows on a nonce the overlay itself buffered.
C8_Witness ==
    /\ last.op = "increment_nonce"
    /\ Fails("StarknetApiError")
    /\ last.args[1] \in DOMAIN nonce_update
    /\ nonce_update[last.args[1]] = FeltMax

\* C9: the backend receives no mutation from the overlay: every backend call of
\* an operation is a read primitive, only the reads and increment_nonce call
\* the backend at all, and the backend's durable state stays what it was.
C9_BackendNeverMutated ==
    /\ backend_writes = << >>
    /\ \A i \in 1..Len(last.calls) : last.calls[i].method \in ReadPrimitives
    /\ last.op \notin (Reads \cup {"increment_nonce"}) => last.calls = << >>

\* A diff taken from an overlay that buffers storage writes, the backend
\* untouched.
C9_Witness ==
    /\ last.op = "to_state_diff"
    /\ storage_update # EmptyMap
    /\ backend_writes = << >>

\* C10: to_state_diff returns exactly the four maps address->class-hash,
\* address->nonce, (address,key)->storage value and class-hash->compiled class
\* hash, each key with its latest written value, and nothing else (no class
\* bodies, no visited program counters); it leaves the overlay unchanged, and
\* two consecutive calls return equal diffs.
DiffFields == {"address_to_class_hash", "address_to_nonce", "storage_updates",
               "class_hash_to_compiled_class_hash"}

StorageOf(updates) ==
    [p \in {q \in Addresses \X Keys :
                q[1] \in DOMAIN updates /\ q[2] \in DOMAIN updates[q[1]]}
        |-> updates[p[1]][p[2]]]

C10_Diff ==
    last.op = "to_state_diff" =>
        LET d == last.res.val IN
        /\ DOMAIN d = DiffFields
        /\ d.address_to_class_hash = latest.class_hash
        /\ d.address_to_nonce = latest.nonce
        /\ d.class_hash_to_compiled_class_hash = latest.compiled_class_hash
        /\ DOMAIN d.storage_updates \subseteq Addresses
        /\ \A a \in DOMAIN d.storage_updates : DOMAIN d.storage_updates[a] \subseteq Keys
        /\ StorageOf(d.storage_updates) = latest.storage

C10_Step ==
    last'.op = "to_state_diff" =>
        /\ overlay' = overlay
        /\ block_number' = block_number
        /\ last.op = "to_state_diff" => last'.res = last.res

\* C10: to_state_diff returns exactly the four buffered maps (no declared class
\* bodies, no visited pcs) and changes nothing, so calling it twice with no
\* write in between returns equal diffs.
C10_DiffIsSnapshot == []C10_Diff /\ [][C10_Step]_vars

\* A diff taken from an overlay that buffers a nonce and a declared class body.
C10_Witness ==
    /\ last.op = "to_state_diff"
    /\ latest.nonce # EmptyMap
    /\ contract_class_update # EmptyMap
    /\ last.res.val.address_to_nonce = latest.nonce


\* Whether the last operation is a class read served from the backend's record.
ServedFromRecord ==
    /\ last.op = "get_compiled_contract_class"
    /\ ~Written
    /\ backend_answer.tag = "Some"

\* C11: a class read served from the backend's record yields the V1 class when
\* sierra_program_length > 0 and the blob parses as V1, the V0 class when the
\* length is 0 and the blob parses as V0, whatever else the blob would parse
\* as; when the blob does not parse as the variant the length selects, the read
\* fails with StateReadError and yields no class.
C11_VariantByLength ==
    ServedFromRecord =>
        LET r == backend_answer.val
            selected == IF r.sierra_program_length > 0 THEN "V1" ELSE "V0"
            parsed == IF selected = "V1"
                      THEN ContractClassV1_try_from_json_string(r.contract_class)
                      ELSE ContractClassV0_try_from_json_string(r.contract_class)
        IN IF parsed.tag = "Ok"
           THEN Returns(ContractClass(selected, r.contract_class))
           ELSE Fails("StateReadError")

\* A record of length hint 0 whose blob only parses as V1: the read fails.
C11_Witness ==
    /\ ServedFromRecord
    /\ backend_answer.val.sierra_program_length = 0
    /\ backend_answer.val.contract_class = "v1json"
    /\ Fails("StateReadError")


\* The maps of an overlay hold exactly the writes of its own history.
OwnWrites(storage, nonce, class_hash, compiled, classes, history) ==
    /\ StorageOf(storage) = history.storage
    /\ DOMAIN storage \subseteq Addresses
    /\ \A a \in DOMAIN storage : DOMAIN storage[a] \subseteq Keys
    /\ nonce = history.nonce
    /\ class_hash = history.class_hash
    /\ compiled = history.compiled_class_hash
    /\ classes = history.contract_class

C12_State ==
    /\ OwnWrites(storage_update, nonce_update, class_hash_update,
                 compiled_class_hash_update, contract_class_update, latest)
    /\ OwnWrites(suspended.storage_update, suspended.nonce_update,
                 suspended.class_hash_update, suspended.compiled_class_hash_update,
                 suspended.contract_class_update, suspended.latest)
    /\ backend_writes = << >>
    /\ C10_Diff
    /\ (last.op \in Reads /\ Written /\ ~(last.op = "get_storage_at" /\ last.args[1] = ONE))
          => /\ last.res.tag = "Ok"
             /\ last.calls = << >>

C12_Step ==
    last'.op # "switch" => suspended' = suspended

\* C12: with the operations of two overlays over one backend interleaved in any
\* order, no operation on one overlay changes the other overlay, nothing is
\* sent to the backend, and each overlay's maps (hence its reads and its diff)
\* are those of its own writes alone.
C12_Isolation == []C12_State /\ [][C12_Step]_vars

\* A storage read on one overlay returns that overlay's value while the other
\* overlay holds another value under the same key.
C12_Witness ==
    /\ last.op = "get_storage_at"
    /\ last.args[1] # ONE
    /\ Written
    /\ <<last.args[1], last.args[2]>> \in DOMAIN suspended.latest.storage
    /\ suspended.latest.storage[<<last.args[1], last.args[2]>>] # last.res.val
    /\ suspended.block_number # block_number
    /\ Returns(latest.storage[<<last.args[1], last.args[2]>>])


\* ------------------------------------------------------ class codec claims
Encoded == last.op = "try_into"
Self == last.args[1]
TagsAgree ==
    \/ Self.contract.variant = "V0" /\ Self.abi.tag = "Cairo"
    \/ Self.contract.variant = "V1" /\ Self.abi.tag = "Sierra"

\* C13: encoding a class to wire fails with the mismatch error when a V1 class
\* is paired with a Cairo ABI and when a V0 class is paired with a Sierra ABI;
\* a wire class is only ever produced for agreeing tags, and it is of the
\* class's own variant.
C13_AbiPairing ==
    Encoded =>
        /\ (Self.contract.variant = "V1" /\ Self.abi.tag = "Cairo")
             => last.res = Anyhow("Invalid ABI type for Sierra")
        /\ (Self.contract.variant = "V0" /\ Self.abi.tag = "Sierra")
             => last.res = Anyhow("Invalid ABI type for Cairo")
        /\ last.res.tag = "Ok"
             => /\ TagsAgree
                /\ last.res.val.variant = "Sierra" <=> Self.contract.variant = "V1"
                /\ last.res.val.variant = "Legacy" <=> Self.contract.variant = "V0"

\* A V1 class with its External bucket, paired with a Cairo ABI that parses:
\* the encode fails with the mismatch error.
C13_Witness ==
    /\ Encoded
    /\ Self.contract.variant = "V1"
    /\ "External" \in DOMAIN Self.contract.entry_points_by_type
    /\ Self.abi = Cairo(Some(<<"[", "]">>))
    /\ last.res = Anyhow("Invalid ABI type for Sierra")

\* The bucket of a kind in the class, empty when the class has none.
BucketIn(kind) ==
    IF kind \in DOMAIN Self.contract.entry_points_by_type
    THEN Self.contract.entry_points_by_type[kind] ELSE << >>
BucketOut(kind) ==
    CASE kind = "Constructor" -> last.res.val.entry_points_by_type.constructor
      [] kind = "External" -> last.res.val.entry_points_by_type.external
      [] kind = "L1Handler" -> last.res.val.entry_points_by_type.l1_handler

\* C14: in the wire form of a V1 class every bucket has the entries of the
\* class's bucket in their order, the i-th (from zero) with function_idx = i
\* and its selector unchanged.
C14_PositionalIndices ==
    (Encoded /\ last.res.tag = "Ok" /\ Self.contract.variant = "V1") =>
        \A kind \in EntryPointType :
            /\ Len(BucketOut(kind)) = Len(BucketIn(kind))
            /\ \A i \in 1..Len(BucketIn(kind)) :
                 /\ BucketOut(kind)[i].function_idx = i - 1
                 /\ BucketOut(kind)[i].selector = BucketIn(kind)[i].selector

\* An External bucket of two entries whose offsets run against their order.
C14_Witness ==
    /\ Encoded
    /\ last.res.tag = "Ok"
    /\ Self.contract.variant = "V1"
    /\ Len(BucketIn("External")) = 2
    /\ BucketIn("External")[1].offset > BucketIn("External")[2].offset
    /\ BucketOut("External")[1].function_idx = 0
    /\ BucketOut("External")[2].function_idx = 1

Persisted == last.op = "try_from" /\ last.res.tag = "Ok"
Payload == last.args[1]
StoredAbiString ==
    IF last.res.val.abi.tag = "Sierra"
    THEN last.res.val.abi.val ELSE last.res.val.abi.val.val

\* C15: in the record made from an accepted payload, sierra_program_length is
\* the number of elements of the payload's sierra_program array and 0 when the
\* payload has no sierra_program; abi_length is the byte length of the stored
\* ABI string, which is the serialized abi field, and equals length() of the
\* stored ABI.
C15_LengthHints ==
    Persisted =>
        /\ Payload.sierra_program.kind = "array"
             => last.res.val.sierra_program_length = Len(Payload.sierra_program.items)
        /\ Payload.sierra_program.kind = "absent"
             => last.res.val.sierra_program_length = 0
        /\ StoredAbiString = serde_json_to_string(Payload.abi.items)
        /\ last.res.val.abi_length = len(StoredAbiString)
        /\ last.res.val.abi_length = length(last.res.val.abi)

\* A legacy payload with the ABI []: lengths 0 and 2.
C15_Witness ==
    /\ Persisted
    /\ Payload.sierra_program.kind = "absent"
    /\ StoredAbiString = <<"[", "]">>
    /\ last.res.val.sierra_program_length = 0
    /\ last.res.val.abi_length = 2

\* C16: a wire Constructor or L1Handler entry becomes a Function entry named
\* "constructor" / "l1_handler" with the entry's inputs, no outputs and no
\* state mutability; an internal entry never goes back to wire as a Constructor
\* or L1Handler entry, so a constructor comes back as a Function entry, and a
\* Function, Event or Struct entry comes back as it was.
C16_AbiFolding ==
    /\ (last.op = "abi_entry_from" /\ last.args[1].tag \in {"Constructor", "L1Handler"})
         => last.res.val =
              AbiEntry("Function",
                       [name |-> IF last.args[1].tag = "Constructor"
                                 THEN "constructor" ELSE "l1_handler",
                        inputs |-> last.args[1].val.inputs,
                        outputs |-> << >>,
                        state_mutability |-> None])
    /\ last.op = "raw_abi_entry_from"
         => /\ last.res.val.tag \notin {"Constructor", "L1Handler"}
            /\ last.args[1].tag \in {"Constructor", "L1Handler"}
                 => last.res.val.tag = "Function"
            /\ last.args[1].tag \in {"Function", "Event", "Struct"}
                 => last.res.val = last.args[1]

\* A constructor entry that had outputs and is back as a Function entry named
\* "constructor" without them.
C16_Witness ==
    /\ last.op = "raw_abi_entry_from"
    /\ last.args[1].tag = "Constructor"
    /\ last.args[1].val.outputs # << >>
    /\ last.res.val.tag = "Function"
    /\ last.res.val.val.name = "constructor"
    /\ last.res.val.val.outputs = << >>

\* Whether nothing but the entry points can make the encode of the class fail.
EncodableButForBuckets ==
    /\ Encoded
    /\ TagsAgree
    /\ Self.contract.variant = "V0"
         => /\ last.args[2].tag = "Ok"
            /\ Self.abi.val.tag = "Some"
            /\ serde_json_from_str(Self.abi.val.val).tag = "Ok"

\* C17: encoding a V0 or V1 class to wire fails with an error when the class
\* has no External bucket; with one it succeeds whether or not the class has a
\* Constructor or an L1Handler bucket, an absent one of these becoming the
\* empty list, and every bucket has the entries of the class's bucket in order.
C17_RequiredBucket ==
    /\ (Encoded /\ TagsAgree /\ "External" \notin DOMAIN Self.contract.entry_points_by_type)
         => last.res.tag = "Err"
    /\ (EncodableButForBuckets /\ "External" \in DOMAIN Self.contract.entry_points_by_type)
         => /\ last.res.tag = "Ok"
            /\ \A kind \in EntryPointType :
                 /\ Len(BucketOut(kind)) = Len(BucketIn(kind))
                 /\ \A i \in 1..Len(BucketIn(kind)) :
                      BucketOut(kind)[i].selector = BucketIn(kind)[i].selector

\* A V0 class with External and L1Handler entries and no Constructor bucket is
\* encoded with an empty constructor list.
C17_Witness ==
    /\ EncodableButForBuckets
    /\ Self.contract.variant = "V0"
    /\ DOMAIN Self.contract.entry_points_by_type = {"External", "L1Handler"}
    /\ Len(BucketIn("External")) = 2
    /\ last.res.tag = "Ok"
    /\ BucketOut("Constructor") = << >>
    /\ Len(BucketOut("External")) = 2

\* C18 (as stated): making the record of a payload that parses and has no abi
\* field fails with the missing-ABI error, and encoding a V0 class whose ABI is
\* Cairo(None) ends with an error value.
C18_MissingAbiIsError ==
    /\ (/\ last.op = "try_from"
        /\ from_rpc_contract_class(Payload).tag = "Ok"
        /\ Payload.abi.kind = "absent")
         => last.res = Anyhow("Missing abi field in contract class")
    /\ (Encoded /\ Self.contract.variant = "V0" /\ Self.abi = Cairo(None))
         => last.res.tag = "Err"


\* ------------------------------------------------------- overlay, continued
\* The nonce get_nonce_at returns for an address when the backend answers ans.
NonceSeen(a, ans) == get_nonce_at(a, ans).res

C19_State ==
    /\ DOMAIN latest.increments = DOMAIN nonce_update
    /\ \A a \in DOMAIN nonce_update :
         nonce_update[a] = latest.nonce_base[a] + latest.increments[a]

C19_Step ==
    \A a \in Addresses :
        (last'.op = "increment_nonce" /\ last'.args = <<a>>) =>
            LET seen == NonceSeen(a, backend_answer')
            IN /\ last'.res.tag = "Ok" <=> (seen.tag = "Ok" /\ seen.val # FeltMax)
               /\ last'.res.tag = "Ok" =>
                    \A ans \in NonceAnswers :
                        /\ NonceSeen(a, ans)' = Ok(seen.val + 1)
                        /\ \A b \in Addresses \ {a} :
                             NonceSeen(b, ans)' = NonceSeen(b, ans)

\* C19: increment_nonce succeeds exactly when the nonce read succeeds with a
\* nonce n below the maximum, and then get_nonce_at returns n + 1 for the
\* address and what it returned before for every other address; so the nonce
\* an overlay holds for an address is the nonce in force before its first
\* increment (the backend's, else zero) plus the number of increments.
C19_IncrementByOne == []C19_State /\ [][C19_Step]_vars

\* The second increment of an address the backend does not know: nonce 2.
C19_Witness ==
    /\ last.op = "increment_nonce"
    /\ last.res.tag = "Ok"
    /\ latest.increments[last.args[1]] = 2
    /\ latest.nonce_base[last.args[1]] = 0
    /\ nonce_update[last.args[1]] = 2

C20_State ==
    LET d == to_state_diff IN
    /\ DOMAIN d.address_to_nonce \subseteq DOMAIN latest.nonce
    /\ DOMAIN d.address_to_class_hash \subseteq DOMAIN latest.class_hash
    /\ DOMAIN d.class_hash_to_compiled_class_hash \subseteq DOMAIN latest.compiled_class_hash
    /\ \A a \in DOMAIN d.storage_updates : \A k \in DOMAIN d.storage_updates[a] :
         <<a, k>> \in DOMAIN latest.storage

C20_Step ==
    last'.op \in Reads => (overlay' = overlay /\ block_number' = block_number)

\* C20: a read, whatever its result, leaves the six maps and the snapshot block
\* as they were, and the diff holds only keys that were written.
C20_ReadsDoNotWrite == []C20_State /\ [][C20_Step]_vars

\* A nonce read answered by the backend on an overlay that buffers other
\* writes: the nonce map has no entry for the address afterwards.
C20_Witness ==
    /\ last.op = "get_nonce_at"
    /\ backend_answer.tag = "Some"
    /\ Returns(backend_answer.val)
    /\ last.args[1] \notin DOMAIN nonce_update
    /\ nonce_update # EmptyMap
    /\ storage_update # EmptyMap


\* C21 (as stated): in every record made from a wire payload the stored class
\* is V1 exactly when sierra_program_length > 0, and that exactly when the
\* stored ABI is Sierra, so that the variant the read-through selects by the
\* length is the variant of the stored class.
C21_LengthAuthoritative ==
    Persisted =>
        /\ last.res.val.contract.variant = "V1" <=> last.res.val.sierra_program_length > 0
        /\ last.res.val.sierra_program_length > 0 <=> last.res.val.abi.tag = "Sierra"
        /\ (IF last.res.val.sierra_program_length > 0 THEN "V1" ELSE "V0")
             = last.res.val.contract.variant

==========================================================================
